---- MODULE Spec2Model ----
(***************************************************************************)
(* Model of the Minesweeper knowledge base of src/minesweeper.py:           *)
(* Sentence, MinesweeperAI.mark_mine / mark_safe / add_knowledge /          *)
(* make_safe_move / make_random_move, driven by a Minesweeper board that    *)
(* reports truthful neighbour counts.  Spec takes add_knowledge calls as    *)
(* single steps, SpecMoves adds the two move functions, SpecSteps runs      *)
(* add_knowledge one numbered step of its body at a time.                   *)
(*                                                                          *)
(* A Sentence is a record [cells, count]; MinesweeperAI.knowledge is a      *)
(* sequence of them (a Python list).  Python iterates a set in an order     *)
(* the program does not control, so every "for x in <set>" loop that        *)
(* mutates the knowledge base is modelled by the set of results over all    *)
(* orders.                                                                  *)
(***************************************************************************)
EXTENDS Integers, Sequences, FiniteSets, TLC

\* Board size: the height and width MinesweeperAI.__init__ is given.
Height == 3
Width == 3
\* The board holds between one and this many real mines.
MaxMines == 2
\* A repeated observation of an already probed cell is taken only while it
\* leaves at most this many sentences in knowledge.
MaxKnowledge == 0

\* board: the mines Minesweeper.__init__ placed.  moves_made, safes, mines,
\* knowledge: the fields of MinesweeperAI.  move: the value make_safe_move or
\* make_random_move returned last, until it is played.  pc, call, passes: the
\* step an add_knowledge call in progress is at, its (cell, count), and the
\* number of times the latest call ran steps 4 and 5.
VARIABLES board, moves_made, safes, mines, knowledge, move, pc, call, passes

vars == <<board, moves_made, safes, mines, knowledge, move, pc, call, passes>>

\* Python's None, as a value no cell equals.
None == <<>>

Cells == (0..(Height - 1)) \X (0..(Width - 1))

\* The cells within one row and column of cell, clipped to the board.
Neighbors(cell) ==
    {n \in Cells : /\ n # cell
                   /\ n[1] \in (cell[1] - 1)..(cell[1] + 1)
                   /\ n[2] \in (cell[2] - 1)..(cell[2] + 1)}

\* Minesweeper.nearby_mines on the real board b.
nearby_mines(b, cell) == Cardinality(Neighbors(cell) \cap b)

Sentence(cells, count) == [cells |-> cells, count |-> count]

known_mines(s) == IF Cardinality(s.cells) = s.count THEN s.cells ELSE {}

known_safes(s) == IF s.count = 0 THEN s.cells ELSE {}

\* Sentence.mark_mine without "self.count -= 1".
Sentence_mark_mine_KeepCount(s, cell) ==
    IF cell \in s.cells
    THEN [cells |-> s.cells \ {cell}, count |-> s.count]
    ELSE s


Sentence_mark_mine(s, cell) ==
    IF cell \in s.cells
    THEN [cells |-> s.cells \ {cell}, count |-> s.count - 1]
    ELSE s

Sentence_mark_safe(s, cell) ==
    IF cell \in s.cells
    THEN [cells |-> s.cells \ {cell}, count |-> s.count]
    ELSE s

\* list.remove(x): drops the first element equal to x (Sentence.__eq__).
ListRemove(k, x) ==
    LET j == CHOOSE i \in 1..Len(k) : k[i] = x /\ \A h \in 1..(i - 1) : k[h] # x
    IN [p \in 1..(Len(k) - 1) |-> IF p < j THEN k[p] ELSE k[p + 1]]

\* MarkLoop without "if len(sentence.cells) == 0: self.knowledge.remove(sentence)".
RECURSIVE MarkLoop_NoRemove(_, _, _, _)
MarkLoop_NoRemove(isMine, k, i, cell) ==
    IF i > Len(k) THEN k
    ELSE LET s2 == IF isMine THEN Sentence_mark_mine(k[i], cell)
                               ELSE Sentence_mark_safe(k[i], cell)
         IN MarkLoop_NoRemove(isMine, [k EXCEPT ![i] = s2], i + 1, cell)

\* The loop "for sentence in self.knowledge: sentence.mark_X(cell); if
\* len(sentence.cells) == 0: self.knowledge.remove(sentence)".  The list
\* iterator is an index i into the list being mutated: after a removal the
\* elements shift left and the iterator still advances, so the sentence that
\* followed the removed one is not visited.
RECURSIVE MarkLoop(_, _, _, _)
MarkLoop(isMine, k, i, cell) ==
    IF i > Len(k) THEN k
    ELSE LET s2 == IF isMine THEN Sentence_mark_mine(k[i], cell)
                               ELSE Sentence_mark_safe(k[i], cell)
             k2 == [k EXCEPT ![i] = s2]
         IN IF Cardinality(s2.cells) = 0
            THEN MarkLoop(isMine, ListRemove(k2, s2), i + 1, cell)
            ELSE MarkLoop(isMine, k2, i + 1, cell)

\* MinesweeperAI.mark_mine on a knowledge base kb.
mark_mine(kb, cell) ==
    [kb EXCEPT !.mines = @ \cup {cell},
               !.knowledge = MarkLoop(TRUE, kb.knowledge, 1, cell)]

\* MinesweeperAI.mark_safe on a knowledge base kb.
mark_safe(kb, cell) ==
    [kb EXCEPT !.safes = @ \cup {cell},
               !.knowledge = MarkLoop(FALSE, kb.knowledge, 1, cell)]

\* "for c in S: self.mark_X(c)" over a set S: the knowledge bases that result
\* from some iteration order of S, starting from any member of kbs.  front
\* holds pairs <<cells already marked, knowledge base>>.
RECURSIVE MarkLevels(_, _, _)
MarkLevels(isMine, S, front) ==
    IF \A p \in front : p[1] = S
    THEN {p[2] : p \in front}
    ELSE MarkLevels(isMine, S,
           UNION {{<<p[1] \cup {c},
                     IF isMine THEN mark_mine(p[2], c) ELSE mark_safe(p[2], c)>>
                   : c \in S \ p[1]} : p \in front})

MarkAllOrders(isMine, S, kbs) == MarkLevels(isMine, S, {<<{}, kb>> : kb \in kbs})

\* RecordMove without "self.mark_safe(cell)".
RecordMove_NoSafe(kb, cell) == [kb EXCEPT !.moves_made = @ \cup {cell}]

\* RecordMove with "self.moves_made = {cell}" for "self.moves_made.add(cell)".
RecordMove_Reset(kb, cell) == mark_safe([kb EXCEPT !.moves_made = {cell}], cell)

\* Steps 1 and 2 of add_knowledge: record the move, mark the cell safe.
RecordMove(kb, cell) == mark_safe([kb EXCEPT !.moves_made = @ \cup {cell}], cell)

\* neighbor_cells with the ranges ending at cell[0] + 1 and cell[1] + 1.
neighbor_cells_ShortRange(kb, cell) ==
    {n \in Neighbors(cell) : /\ n \notin kb.safes /\ n \notin kb.mines
                             /\ n[1] <= cell[1] /\ n[2] <= cell[2]}

\* Step 3, the neighbour scan: neighbours already in safes are skipped,
\* neighbours already in mines lower the count, the rest are collected.
neighbor_cells(kb, cell) ==
    {n \in Neighbors(cell) : n \notin kb.safes /\ n \notin kb.mines}

\* ReducedCount with "count -= 1" for every classified neighbour, safe or mine.
ReducedCount_CountSafes(kb, cell, count) ==
    count - Cardinality({n \in Neighbors(cell) : n \in kb.safes \/ n \in kb.mines})

\* ReducedCount without the "count -= 1" of the known-mine branch.
ReducedCount_NoDecrement(kb, cell, count) == count


ReducedCount(kb, cell, count) ==
    count - Cardinality({n \in Neighbors(cell) : n \notin kb.safes /\ n \in kb.mines})

\* Step 3, the fold of the new sentence: all mines, all safe, or appended.
FoldSentence(kb, cells, count) ==
    IF Cardinality(cells) = count
    THEN MarkAllOrders(TRUE, cells, {kb})
    ELSE IF count = 0 /\ Cardinality(cells) > 0
    THEN MarkAllOrders(FALSE, cells, {kb})
    ELSE {[kb EXCEPT !.knowledge = Append(@, Sentence(cells, count))]}

\* The scan of step 4 without "discovered_mines.update(...)".
discovered_mines_None(kb) == {}

\* Step 4: one scan collects known_mines / known_safes of every sentence,
\* then the mines are marked, then the safes.
discovered_mines(kb) ==
    UNION {known_mines(kb.knowledge[i]) : i \in 1..Len(kb.knowledge)}

discovered_safes(kb) ==
    UNION {known_safes(kb.knowledge[i]) : i \in 1..Len(kb.knowledge)}

MarkDiscovered(kb) ==
    MarkAllOrders(FALSE, discovered_safes(kb),
                  MarkAllOrders(TRUE, discovered_mines(kb), {kb}))

\* The knowledge bases add_knowledge can be in when step 5 starts.
BeforeResolution(kb, cell, count) ==
    LET kb2 == RecordMove(kb, cell)
    IN UNION {MarkDiscovered(kb3) :
                kb3 \in FoldSentence(kb2, neighbor_cells(kb2, cell),
                                     ReducedCount(kb2, cell, count))}

\* Step 5.  The nested loops visit the ordered pairs (sentenceA, sentenceB) =
\* (k[i], k[j]) in row-major order; AllPairs(k) is that order.
AllPairs(k) ==
    [p \in 1..(Len(k) * Len(k)) |->
        <<((p - 1) \div Len(k)) + 1, ((p - 1) % Len(k)) + 1>>]

\* Not skipped by "if sentenceA == sentenceB: continue" and a subset.
IsSubsetPair(k, pr) ==
    /\ k[pr[1]] # k[pr[2]]
    /\ k[pr[1]].cells \subseteq k[pr[2]].cells

\* new_sentence with "new_count = sentenceA.count - sentenceB.count".
new_sentence_SwapCount(k, pr) ==
    Sentence(k[pr[2]].cells \ k[pr[1]].cells, k[pr[1]].count - k[pr[2]].count)

\* The sentence step 5 builds for a subset pair: sentenceB minus sentenceA.
new_sentence(k, pr) ==
    Sentence(k[pr[2]].cells \ k[pr[1]].cells, k[pr[2]].count - k[pr[1]].count)

\* The new_sentence of every subset pair, in the order the loops build them.
Derived(k) ==
    LET prs == SelectSeq(AllPairs(k), LAMBDA pr : IsSubsetPair(k, pr))
    IN [p \in 1..Len(prs) |-> new_sentence(k, prs[p])]

\* The branch "if new_sentence.count == 0".
IsSafe(s) == s.count = 0

\* The branch "elif new_sentence.count == len(new_sentence.cells)".
IsMine(s) == s.count # 0 /\ s.count = Cardinality(s.cells)

\* new_knowledge: the derived sentences of the else branch.
new_knowledge(derived) ==
    SelectSeq(derived, LAMBDA s : ~IsSafe(s) /\ ~IsMine(s))

\* cells_to_mark_as_mines / cells_to_mark_as_safe: one group of cells per
\* pair, the groups in pair order, the cells of a group in set order.
cells_to_mark_as_mines(derived) ==
    LET ss == SelectSeq(derived, IsMine)
    IN [p \in 1..Len(ss) |-> ss[p].cells]

cells_to_mark_as_safe(derived) ==
    LET ss == SelectSeq(derived, IsSafe)
    IN [p \in 1..Len(ss) |-> ss[p].cells]

RECURSIVE MarkGroups(_, _, _)
MarkGroups(isMine, groups, kbs) ==
    IF Len(groups) = 0 THEN kbs
    ELSE MarkGroups(isMine, Tail(groups), MarkAllOrders(isMine, Head(groups), kbs))

\* Resolve with the two lists built but the marking loops left out.
Resolve_Unapplied(kb) ==
    {[kb EXCEPT !.knowledge = @ \o new_knowledge(Derived(kb.knowledge))]}


Resolve(kb) ==
    LET derived == Derived(kb.knowledge)
        kb2 == [kb EXCEPT !.knowledge = @ \o new_knowledge(derived)]
    IN MarkGroups(FALSE, cells_to_mark_as_safe(derived),
                  MarkGroups(TRUE, cells_to_mark_as_mines(derived), {kb2}))

\* MinesweeperAI.add_knowledge: the knowledge bases it can return.
add_knowledge(kb, cell, count) ==
    UNION {Resolve(m) : m \in BeforeResolution(kb, cell, count)}

\* The knowledge base held in the variables.
KB == [moves_made |-> moves_made, safes |-> safes, mines |-> mines,
       knowledge |-> knowledge]

\* The eight symmetries of the square board, as maps on cells.  Height = Width
\* is needed for the rotations to stay on the board.
Rotate(c) == <<c[2], Height - 1 - c[1]>>

Reflect(c) == <<c[1], Width - 1 - c[2]>>

Images(b) ==
    LET r1 == {Rotate(c) : c \in b}
        r2 == {Rotate(c) : c \in r1}
        r3 == {Rotate(c) : c \in r2}
    IN {b, r1, r2, r3} \cup {{Reflect(c) : c \in x} : x \in {b, r1, r2, r3}}

RECURSIVE Rank(_)
Rank(b) ==
    IF b = {} THEN 0
    ELSE LET c == CHOOSE x \in b : TRUE
         IN 2 ^ (Width * c[1] + c[2]) + Rank(b \ {c})

\* One mine placement per symmetry class: the image that puts its mines
\* latest in row-major order.  add_knowledge reads a cell's coordinates only
\* to find its neighbours, and the model takes every iteration order of
\* every set, so a rotated or reflected board behaves as its image does.
Boards ==
    {b \in SUBSET Cells :
        /\ Cardinality(b) \in 1..MaxMines
        /\ \A x \in Images(b) : Rank(x) <= Rank(b)}

\* Minesweeper.__init__ places the mines; MinesweeperAI.__init__ starts empty.
Init ==
    /\ board \in Boards
    /\ moves_made = {}
    /\ safes = {}
    /\ mines = {}
    /\ knowledge = <<>>
    /\ move = None
    /\ pc = "idle"
    /\ call = None
    /\ passes = 0

\* The knowledge base o replaces the one held in the variables.
Store(o) ==
    /\ moves_made' = o.moves_made
    /\ safes' = o.safes
    /\ mines' = o.mines
    /\ knowledge' = o.knowledge

\* A whole add_knowledge call returns with the knowledge base o; the move it
\* played, if one was pending, is no longer pending.
Return(o) ==
    /\ Store(o)
    /\ move' = None
    /\ UNCHANGED <<board, pc, call, passes>>

\* The game reports a non-mine cell, probed for the first time, with its
\* true neighbour count.
AddKnowledge(cell) ==
    /\ cell \notin board
    /\ cell \notin moves_made
    /\ \E o \in add_knowledge(KB, cell, nearby_mines(board, cell)) : Return(o)

\* The same call for a cell probed before: add_knowledge has no test of
\* moves_made and runs in full.  Each such call may append sentences without
\* end, so it is taken only while it leaves at most MaxKnowledge of them.
AddKnowledgeAgain(cell) ==
    /\ cell \notin board
    /\ cell \in moves_made
    /\ \E o \in add_knowledge(KB, cell, nearby_mines(board, cell)) :
          /\ Len(o.knowledge) <= MaxKnowledge
          /\ Return(o)

Next == \E cell \in Cells : AddKnowledge(cell) \/ AddKnowledgeAgain(cell)

Spec == Init /\ [][Next]_vars

----------------------------------------------------------------------------
\* The game as the AI plays it: a move is asked for, then played.

\* make_safe_move with the loop that returns on its first iteration: "for
\* safe_move in self.safes: if <unplayed and not a mine>: return safe_move
\* else: return None".
make_safe_move_FirstOnly(kb) ==
    IF kb.safes = {} THEN {None}
    ELSE {IF m \notin kb.moves_made /\ m \notin kb.mines THEN m ELSE None :
            m \in kb.safes}

\* MinesweeperAI.make_safe_move: the values it can return.  random.choice
\* picks any member of possible_moves.
make_safe_move(kb) ==
    LET possible_moves ==
            {m \in kb.safes : m \notin kb.moves_made /\ m \notin kb.mines}
    IN IF possible_moves # {} THEN possible_moves ELSE {None}

\* MinesweeperAI.make_random_move: the values it can return.  randrange
\* picks any cell of the board; the loop body returns on both branches, so
\* a picked cell that is played or a known mine gives None.
make_random_move(kb) ==
    {IF random_cell \notin kb.mines /\ random_cell \notin kb.moves_made
     THEN random_cell ELSE None : random_cell \in Cells}

MakeSafeMove ==
    /\ move' \in make_safe_move(KB)
    /\ UNCHANGED <<board, moves_made, safes, mines, knowledge, pc, call, passes>>

MakeRandomMove ==
    /\ move' \in make_random_move(KB)
    /\ UNCHANGED <<board, moves_made, safes, mines, knowledge, pc, call, passes>>

\* The returned move is played: if it is no mine, the game reports its true
\* neighbour count to add_knowledge.
PlayMove ==
    /\ move # None
    /\ AddKnowledge(move)

NextMoves == MakeSafeMove \/ MakeRandomMove \/ PlayMove

SpecMoves == Init /\ [][NextMoves]_vars

----------------------------------------------------------------------------
\* add_knowledge step by step: steps 1-2, step 3, step 4, step 5, return.

\* Steps 1 and 2.  A cell probed before is taken under the bound of
\* AddKnowledgeAgain.
Begin(cell) ==
    /\ pc = "idle"
    /\ cell \notin board
    /\ cell \in moves_made =>
          \A o \in add_knowledge(KB, cell, nearby_mines(board, cell)) :
              Len(o.knowledge) <= MaxKnowledge
    /\ Store(RecordMove(KB, cell))
    /\ pc' = "sentence"
    /\ call' = <<cell, nearby_mines(board, cell)>>
    /\ passes' = 0
    /\ UNCHANGED <<board, move>>

\* Step 3: the neighbour scan and the fold of the new sentence.
AddSentence ==
    /\ pc = "sentence"
    /\ \E o \in FoldSentence(KB, neighbor_cells(KB, call[1]),
                              ReducedCount(KB, call[1], call[2])) : Store(o)
    /\ pc' = "mark"
    /\ UNCHANGED <<board, move, call, passes>>

\* Step 4: mark what single sentences show.
MarkKnown ==
    /\ pc = "mark"
    /\ \E o \in MarkDiscovered(KB) : Store(o)
    /\ pc' = "infer"
    /\ UNCHANGED <<board, move, call, passes>>

\* Infer with a jump back to step 4 in place of the return.
Infer_Repeat ==
    /\ pc = "infer"
    /\ \E o \in Resolve(KB) : Store(o)
    /\ pc' = "mark"
    /\ passes' = passes + 1
    /\ UNCHANGED <<board, move, call>>

\* Step 5: subset resolution; then the prints, and the call returns.  Steps
\* 4 and 5 have run once more.
Infer ==
    /\ pc = "infer"
    /\ \E o \in Resolve(KB) : Store(o)
    /\ pc' = "idle"
    /\ call' = None
    /\ passes' = passes + 1
    /\ UNCHANGED <<board, move>>

NextSteps == (\E cell \in Cells : Begin(cell)) \/ AddSentence \/ MarkKnown \/ Infer

\* The call in progress moves on to another step.
Advance == pc # "idle" /\ pc' \in {"idle", "sentence", "mark", "infer"} \ {pc}

\* add_knowledge is an ordinary single-threaded call: once begun it keeps
\* running.  Nothing obliges the game to begin another call.
SpecSteps == Init /\ [][NextSteps]_vars /\ WF_pc(Advance)

----------------------------------------------------------------------------
\* The true count the board reports for a cell.
TrueCount(cell) == nearby_mines(board, cell)

\* Neighbours of cell that are in neither safes nor mines in this state.
Unclassified(cell) == {n \in Neighbors(cell) : n \notin safes /\ n \notin mines}

\* C1: soundness against the real board: every cell in mines is a real mine
\* and no cell in safes is a real mine.
C1_Sound == mines \subseteq board /\ safes \cap board = {}

C1_Witness == mines # {} /\ (safes \ moves_made) # {}

\* C2: safes and mines are disjoint.
C2_Disjoint == safes \cap mines = {}

C2_Witness == mines # {} /\ Cardinality(safes) >= 2 /\ Len(knowledge) > 0

\* C3: calling add_knowledge a second time with the same arguments leaves the
\* knowledge base as the first call left it.
C3_Idempotent ==
    \A c \in Cells \ board :
        \A o1 \in add_knowledge(KB, c, TrueCount(c)) :
            \A o2 \in add_knowledge(o1, c, TrueCount(c)) : o2 = o1

\* C4: when add_knowledge has returned, no sentence with cells has count 0 or
\* count = number of cells, and one more pass of direct marking and subset
\* resolution marks no new cell and adds no sentence that is not yet there.
C4_Saturated ==
    moves_made # {} =>
        /\ \A i \in 1..Len(knowledge) :
              knowledge[i].cells # {} =>
                  /\ knowledge[i].count # 0
                  /\ knowledge[i].count # Cardinality(knowledge[i].cells)
        /\ \A m \in MarkDiscovered(KB) : \A o \in Resolve(m) :
              /\ o.safes = safes
              /\ o.mines = mines
              /\ \A i \in 1..Len(o.knowledge) :
                    \E j \in 1..Len(knowledge) : knowledge[j] = o.knowledge[i]

\* C5: for a given state and observation, every iteration order gives the
\* same safes and mines.
C5_Deterministic ==
    \A c \in Cells \ board :
        \A o1, o2 \in add_knowledge(KB, c, TrueCount(c)) :
            o1.safes = o2.safes /\ o1.mines = o2.mines

\* C6: on the 3x3 board with one mine at (2,2), once all eight other cells
\* are probed, (2,2) is in mines and the eight others are in safes.
C6_EndToEnd ==
    (Height = 3 /\ Width = 3 /\ board = {<<2, 2>>} /\ moves_made = Cells \ board)
        => (<<2, 2>> \in mines /\ (Cells \ {<<2, 2>>}) \subseteq safes)

C6_Witness ==
    /\ Height = 3 /\ Width = 3
    /\ board = {<<2, 2>>}
    /\ moves_made = Cells \ board
    /\ mines = {<<2, 2>>}

\* The cells subset resolution has to mark on the knowledge list k: the
\* differences B.cells - A.cells over unequal sentences A, B of k with A.cells
\* a subset of B.cells, for the pairs whose count difference is 0 (safe) and
\* for those whose count difference is the size of the difference (mine).
DiffSafe(k) ==
    UNION {k[j].cells \ k[i].cells :
             <<i, j>> \in {pr \in (1..Len(k)) \X (1..Len(k)) :
                             /\ k[pr[1]] # k[pr[2]]
                             /\ k[pr[1]].cells \subseteq k[pr[2]].cells
                             /\ k[pr[2]].count - k[pr[1]].count = 0}}

DiffMine(k) ==
    UNION {k[j].cells \ k[i].cells :
             <<i, j>> \in {pr \in (1..Len(k)) \X (1..Len(k)) :
                             /\ k[pr[1]] # k[pr[2]]
                             /\ k[pr[1]].cells \subseteq k[pr[2]].cells
                             /\ k[pr[2]].count - k[pr[1]].count =
                                    Cardinality(k[pr[2]].cells \ k[pr[1]].cells)}}

\* C7: two unequal sentences A, B with A.cells a subset of B.cells at the
\* resolution step put B.cells - A.cells in safes when the counts differ by 0
\* and in mines when they differ by the number of those cells.
C7_SubsetResolution ==
    \A c \in Cells \ board :
        \A m \in BeforeResolution(KB, c, TrueCount(c)) :
            \A o \in Resolve(m) :
                /\ DiffSafe(m.knowledge) \subseteq o.safes
                /\ DiffMine(m.knowledge) \subseteq o.mines

\* A state from which one call has a safe difference and one call a mine
\* difference to mark at its resolution step, each holding a cell that is not
\* marked yet, and the call marks it.
C7_Witness ==
    /\ \E c \in Cells \ board :
          \E m \in BeforeResolution(KB, c, TrueCount(c)) :
              /\ (DiffSafe(m.knowledge) \ m.safes) # {}
              /\ \A o \in Resolve(m) : DiffSafe(m.knowledge) \subseteq o.safes
    /\ \E c \in Cells \ board :
          \E m \in BeforeResolution(KB, c, TrueCount(c)) :
              /\ (DiffMine(m.knowledge) \ m.mines) # {}
              /\ \A o \in Resolve(m) : DiffMine(m.knowledge) \subseteq o.mines

\* C8: after add_knowledge(cell, 0), every neighbour of cell that was
\* unclassified before the call is in safes.
C8_ZeroCount ==
    \A c \in Cells \ board :
        TrueCount(c) = 0 =>
            \A o \in add_knowledge(KB, c, 0) : Unclassified(c) \subseteq o.safes

\* A zero-count cell has been probed and all its neighbours are in safes,
\* some of them never probed.
C8_Witness ==
    \E c \in moves_made :
        /\ TrueCount(c) = 0
        /\ Neighbors(c) \subseteq safes
        /\ (Neighbors(c) \ moves_made) # {}

\* C9 as stated: after add_knowledge(cell, k) where cell has exactly k
\* unclassified neighbours, all of them are in mines.
C9_FullCount ==
    \A c \in Cells \ board :
        Cardinality(Unclassified(c)) = TrueCount(c) =>
            \A o \in add_knowledge(KB, c, TrueCount(c)) :
                Unclassified(c) \subseteq o.mines

\* C9 amended: after add_knowledge(cell, k) where the number of unclassified
\* neighbours of cell is k minus the number of its neighbours already in
\* mines, all the unclassified neighbours are in mines.
C9_FullCountReduced ==
    \A c \in Cells \ board :
        Cardinality(Unclassified(c)) =
            TrueCount(c) - Cardinality(Neighbors(c) \cap mines) =>
                \A o \in add_knowledge(KB, c, TrueCount(c)) :
                    Unclassified(c) \subseteq o.mines

\* A cell next to a known mine whose remaining unclassified neighbours are
\* exactly its remaining mines: the call about to be made marks them.
C9_Witness ==
    \E c \in Cells \ board :
        /\ (Neighbors(c) \cap mines) # {}
        /\ Unclassified(c) # {}
        /\ Cardinality(Unclassified(c)) =
               TrueCount(c) - Cardinality(Neighbors(c) \cap mines)
        /\ \A o \in add_knowledge(KB, c, TrueCount(c)) :
               Unclassified(c) \subseteq o.mines

\* C10: moves_made, safes and mines only grow.
C10_Monotone ==
    [][/\ moves_made \subseteq moves_made'
       /\ safes \subseteq safes'
       /\ mines \subseteq mines']_vars

C10_Witness == Cardinality(moves_made) >= 2 /\ mines # {} /\ knowledge = <<>>

\* The cells one row or column outside the board.
OutOfRange == (((-1)..Height) \X ((-1)..Width)) \ Cells

\* C11: add_knowledge on a cell outside the board is rejected: moves_made,
\* safes, mines and knowledge stay as they were.
C11_OutOfRangeRejected ==
    \A c \in OutOfRange :
        \A n \in 0..Cardinality(Neighbors(c)) :
            \A o \in add_knowledge(KB, c, n) : o = KB

\* A knowledge base with no cell both safe and mine and every count within
\* 0..number of cells.
Consistent(kb) ==
    /\ kb.safes \cap kb.mines = {}
    /\ \A i \in 1..Len(kb.knowledge) :
          /\ kb.knowledge[i].count >= 0
          /\ kb.knowledge[i].count <= Cardinality(kb.knowledge[i].cells)

\* C12: no add_knowledge call, whatever count it is given, completes normally
\* with a count below 0 or above the number of cells, or with a cell both safe
\* and mine.  add_knowledge has no failure exit: every member of
\* add_knowledge(...) is a normal completion.
C12_ConsistencySurfaced ==
    \A c \in Cells \ board :
        \A n \in 0..Cardinality(Neighbors(c)) :
            \A o \in add_knowledge(KB, c, n) : Consistent(o)

\* The cells make_safe_move may return: safe, not played, not a known mine.
SafeUnplayed == {c \in safes : c \notin moves_made /\ c \notin mines}

\* C13: make_safe_move returns a cell that is in safes and in neither
\* moves_made nor mines when there is one, None exactly when there is none,
\* and leaves moves_made, safes, mines and knowledge as they were.
C13_SafeMove ==
    [][MakeSafeMove =>
          /\ UNCHANGED <<moves_made, safes, mines, knowledge>>
          /\ SafeUnplayed # {} => move' \in SafeUnplayed
          /\ move' = None <=> SafeUnplayed = {}]_vars

\* make_safe_move has returned a cell while some played cell is in safes too.
C13_Witness ==
    /\ move # None
    /\ move \in SafeUnplayed
    /\ moves_made # {}

\* The cells make_random_move may return: not played, not a known mine.
Unplayed == {c \in Cells : c \notin moves_made /\ c \notin mines}

\* C14: make_random_move returns a cell in neither moves_made nor mines when
\* the board has one, and None only when every cell of the board is in
\* moves_made or mines.
C14_RandomMove ==
    [][MakeRandomMove =>
          /\ Unplayed # {} => move' \in Unplayed
          /\ move' = None => Unplayed = {}]_vars

\* C15: every add_knowledge call returns, and it runs steps 4 and 5 at most
\* Height * Width times.
C15_Terminates ==
    /\ [](passes <= Height * Width)
    /\ (pc # "idle") ~> (pc = "idle")

\* A call has returned after probing a cell next to a mine, with sentences
\* left in knowledge.
C15_Witness ==
    /\ pc = "idle"
    /\ passes = 1
    /\ Cardinality(moves_made) >= 2
    /\ Len(knowledge) >= 2

\* C16: no sentence in knowledge holds a cell that is in safes or in mines.
C16_Purged ==
    \A i \in 1..Len(knowledge) : knowledge[i].cells \cap (safes \cup mines) = {}

\* Every sentence of the list k has 0 <= count <= number of cells.
CountBounds(k) ==
    \A i \in 1..Len(k) : k[i].count >= 0 /\ k[i].count <= Cardinality(k[i].cells)

\* C17: with truthful counts, every sentence in knowledge has
\* 0 <= count <= number of cells, between calls, when the marking of steps 2
\* to 4 is done, and for every sentence subset resolution builds.
C17_CountBounds ==
    /\ CountBounds(knowledge)
    /\ \A c \in Cells \ board :
          \A m \in BeforeResolution(KB, c, TrueCount(c)) :
              CountBounds(m.knowledge) /\ CountBounds(Derived(m.knowledge))

C17_Witness ==
    /\ Len(knowledge) >= 2
    /\ mines # {}
    /\ \E c \in Cells \ board :
          \E m \in BeforeResolution(KB, c, TrueCount(c)) :
              Len(Derived(m.knowledge)) > 0

\* C18: knowledge never holds two equal sentences.
C18_NoDuplicates ==
    \A i, j \in 1..Len(knowledge) : i # j => knowledge[i] # knowledge[j]

\* C19: with truthful counts no sentence in knowledge has an empty cell set,
\* and marking a cell leaves none: a sentence emptied by mark_mine or
\* mark_safe is removed by that call.
C19_NoEmpty ==
    /\ \A i \in 1..Len(knowledge) : knowledge[i].cells # {}
    /\ \A c \in Cells :
          LET k == IF c \in board THEN mark_mine(KB, c).knowledge
                                  ELSE mark_safe(KB, c).knowledge
          IN \A i \in 1..Len(k) : k[i].cells # {}

\* Some sentence is a single cell, and marking that cell removes it.
C19_Witness ==
    \E i \in 1..Len(knowledge) :
        /\ Cardinality(knowledge[i].cells) = 1
        /\ \E c \in knowledge[i].cells :
              LET k == IF c \in board THEN mark_mine(KB, c).knowledge
                                      ELSE mark_safe(KB, c).knowledge
              IN Len(k) < Len(knowledge)

\* C20: every probed cell is in safes, and add_knowledge(cell, count) returns
\* with cell in moves_made and in safes.
C20_ProbedSafe ==
    /\ moves_made \subseteq safes
    /\ \A c \in Cells \ board :
          \A o \in add_knowledge(KB, c, TrueCount(c)) :
              c \in o.moves_made /\ c \in o.safes

C20_Witness == Cardinality(moves_made) >= 3 /\ (safes \ moves_made) # {}

====
